---- MODULE Spec2Model ----
(***************************************************************************)
(* terraform-removed-remover: cmd/terraform-removed-remover/main.go        *)
(*                                                                         *)
(* A file is a sequence of bytes.  The bytes that matter to the program    *)
(* are kept apart; a whole top-level block (keyword, labels, braces and    *)
(* body) is one symbol, because processFile only reads the block's type    *)
(* and its byte range and never looks inside it:                           *)
(*   REMOVED   a top-level block `removed { ... }`                         *)
(*   RESOURCE  a top-level block of any other type                         *)
(*   HASH      the `#` that starts a line comment (runs to the line's LF)  *)
(*   SP TAB    ' ' and '\t'                                                *)
(*   LF CR     '\n' and '\r'                                               *)
(***************************************************************************)
EXTENDS Integers, Sequences, FiniteSets, TLC

VARIABLES
    disk0,            \* the bytes of the .tf file before the first call
    disk,             \* the bytes of the .tf file on disk
    stats,            \* Stats: the three counters and the two flags
    err,              \* what the last processFile call returned
    content,          \* processFile: bytes read by os.ReadFile in the last call
    removedRanges,    \* processFile: byte ranges of the removed blocks located
    kept,             \* processFile: original offsets (1-based) of the bytes of result
    resultContent,    \* processFile: the buffer handed to hclwrite.Format
    formattedContent, \* processFile: the final buffer of the last call
    written,          \* <<buffer>> handed to os.WriteFile by the last call, or << >>
    pre,              \* disk and stats as they were when the last call started
    nContent,         \* normalizeConsecutiveNewlines: its argument
    contentStr,       \* normalizeConsecutiveNewlines: the working string
    npc,              \* normalizeConsecutiveNewlines: position in the function
    loopResult,       \* processFile, main.go:100-106: result, the buffer being spliced
    loopEnd,          \* processFile, main.go:100-106: end, an offset into result (0-based)
    apc,              \* processFile, main.go:100-106: position in the forward loop
    files0,           \* main: the bytes of each file found, before the loop
    files,            \* main: the bytes of each file found, on disk
    fileIdx,          \* main: the file the loop of main.go:230 is at (1-based)
    bpc,              \* main: position in the loop of main.go:230-238
    log               \* main: one record for each processFile call of the loop

vars == <<disk0, disk, stats, err, content, removedRanges, kept, resultContent,
          formattedContent, written, pre, nContent, contentStr, npc,
          loopResult, loopEnd, apc, files0, files, fileIdx, bpc, log>>

fileVars == <<disk0, disk, stats, err, content, removedRanges, kept, resultContent,
              formattedContent, written, pre>>

normVars == <<nContent, contentStr, npc>>

absorbVars == <<loopResult, loopEnd, apc>>

batchVars == <<files0, files, fileIdx, bpc, log>>

-----------------------------------------------------------------------------
(* Bounds *)

\* longest file content drawn byte by byte in Init
MaxLen == 3

\* most successful processFile calls on the one Stats value
MaxCalls == 2

\* longest argument drawn for normalizeConsecutiveNewlines on its own
MaxNormLen == 8

\* most removed blocks stacked one after the other in a file
MaxStack == 3

\* most bytes drawn after a removed block for the forward loop of main.go:100-106
MaxTail == 4

\* longest argument drawn when the call is followed to its return under fairness
MaxLoopLen == 7

-----------------------------------------------------------------------------
(* Bytes *)

REMOVED == "removed{}"
RESOURCE == "resource{}"
HASH == "#"
SP == "SP"
TAB == "TAB"
LF == "LF"
CR == "CR"

Byte == {REMOVED, RESOURCE, HASH, SP, TAB, LF, CR}

\* all byte strings over S of length at most n
RECURSIVE SeqsUpTo(_, _)
SeqsUpTo(S, n) ==
    IF n = 0 THEN {<< >>}
    ELSE LET shorter == SeqsUpTo(S, n - 1)
         IN  shorter \cup {Append(s, b) : s \in {t \in shorter : Len(t) = n - 1}, b \in S}

\* s[from..] (1-based), the rest of a buffer
Rest(s, from) == SubSeq(s, from, Len(s))

\* bytes.Equal / strings.HasPrefix
HasPrefix(s, p) == Len(s) >= Len(p) /\ SubSeq(s, 1, Len(p)) = p

\* bytes.Contains(s, sub)
Contains(s, sub) ==
    \E i \in 1..(Len(s) - Len(sub) + 1) : SubSeq(s, i, i + Len(sub) - 1) = sub

-----------------------------------------------------------------------------
(* hclsyntax.ParseConfig, as processFile consumes it (main.go:56-76):      *)
(* success or diagnostics, and for each top-level block its type and the   *)
(* byte offsets of block.Range(), which starts at the block's keyword.     *)
(* A line is: blanks, at most one block, blanks, an optional comment, and  *)
(* LF, CR LF or the end of the file.  Two blocks on one line ("Missing     *)
(* newline after block definition") and a CR that no LF follows are        *)
(* errors.  Offsets are 0-based like hcl.Pos.Byte; cbytes are the 1-based  *)
(* positions of the bytes of comment tokens.                               *)

ScanStart == [ok |-> TRUE, blocks |-> << >>, cbytes |-> {}]

BlockType(b) == IF b = REMOVED THEN "removed" ELSE "resource"

RECURSIVE Scan(_, _, _, _)
Scan(s, i, mode, acc) ==
    IF i > Len(s) THEN acc
    ELSE LET b == s[i] IN
         IF mode = "comment"
         THEN Scan(s, i + 1, IF b = LF THEN "start" ELSE "comment",
                   [acc EXCEPT !.cbytes = @ \cup {i}])
         ELSE IF b \in {SP, TAB} THEN Scan(s, i + 1, mode, acc)
         ELSE IF b = LF THEN Scan(s, i + 1, "start", acc)
         ELSE IF b = CR
              THEN IF i < Len(s) /\ s[i + 1] = LF
                   THEN Scan(s, i + 2, "start", acc)
                   ELSE [acc EXCEPT !.ok = FALSE]
         ELSE IF b = HASH
              THEN Scan(s, i + 1, "comment", [acc EXCEPT !.cbytes = @ \cup {i}])
         ELSE IF mode = "afterBlock" THEN [acc EXCEPT !.ok = FALSE]
         ELSE Scan(s, i + 1, "afterBlock",
                   [acc EXCEPT !.blocks =
                       Append(@, [Type |-> BlockType(b), start |-> i - 1, end |-> i])])

ParseConfig(s) == Scan(s, 1, "start", ScanStart)

\* the loop of main.go:71-76 without the test of block.Type
RemovedRangesOf_AnyType(blocks) ==
    SelectSeq(blocks, LAMBDA blk : TRUE)

\* main.go:70-76: the ranges of the blocks whose Type is "removed", in source order
RemovedRangesOf(blocks) ==
    SelectSeq(blocks, LAMBDA blk : blk.Type = "removed")

-----------------------------------------------------------------------------
(* The splice loop, main.go:84-111.  The buffer `result` is carried as the *)
(* sequence of the original 1-based offsets of its bytes, so that the      *)
(* bytes a step deletes can be named; BytesAt gives the buffer itself.     *)

BytesAt(c, idx) == [p \in 1..Len(idx) |-> c[idx[p]]]

\* the backward loop stepping over line feeds too
IsInlineSpace_AlsoLF(b) == b = SP \/ b = TAB \/ b = LF

\* main.go:96: the bytes the backward loop steps over
IsInlineSpace(b) == b = SP \/ b = TAB

\* main.go:96-98: for start > 0 && (result[start-1] == ' ' || result[start-1] == '\t')
RECURSIVE ExtendStart(_, _)
ExtendStart(buf, start) ==
    IF start > 0 /\ IsInlineSpace(buf[start])
    THEN ExtendStart(buf, start - 1)
    ELSE start

\* the forward loop without its break: every terminator after the block is taken
RECURSIVE ExtendEnd_AllTerminators(_, _)
ExtendEnd_AllTerminators(buf, end) ==
    IF end < Len(buf) /\ buf[end + 1] \in {CR, LF}
    THEN ExtendEnd_AllTerminators(buf, end + 1)
    ELSE end

\* main.go:101-106: for end < len(result) && (result[end] == '\r' || result[end] == '\n')
\*                      { end++; if result[end-1] == '\n' { break } }
RECURSIVE ExtendEnd(_, _)
ExtendEnd(buf, end) ==
    IF end < Len(buf) /\ buf[end + 1] \in {CR, LF}
    THEN IF buf[end + 1] = LF THEN end + 1 ELSE ExtendEnd(buf, end + 1)
    ELSE end

\* the excision starting at the keyword, the extended start forgotten
SpliceStep_FromKeyword(c, idx, r) ==
    SubSeq(idx, 1, r.start) \o Rest(idx, ExtendEnd(BytesAt(c, idx), r.end) + 1)

\* main.go:91-108: one iteration, for the range r
SpliceStep(c, idx, r) ==
    LET buf   == BytesAt(c, idx)
        start == ExtendStart(buf, r.start)
        end   == ExtendEnd(buf, r.end)
    IN  SubSeq(idx, 1, start) \o Rest(idx, end + 1)

\* main.go:90: for i := len(removedRanges) - 1; i >= 0; i--
\* the iterations for ranges[n], ranges[n-1], ..., ranges[stop+1]
RECURSIVE SpliceLoop(_, _, _, _, _)
SpliceLoop(c, idx, ranges, n, stop) ==
    IF n <= stop THEN idx
    ELSE SpliceLoop(c, SpliceStep(c, idx, ranges[n]), ranges, n - 1, stop)

\* main.go:87-88: result := make([]byte, len(content)); copy(result, content)
AllOffsets(c) == [p \in 1..Len(c) |-> p]

\* main.go:84-111: the offsets of the bytes of resultContent
Splice(c, ranges) == SpliceLoop(c, AllOffsets(c), ranges, Len(ranges), 0)

-----------------------------------------------------------------------------
(* hclwrite.Format, as processFile consumes it (main.go:113), on top-level *)
(* lines: the blanks before the first token of a line and before a line    *)
(* terminator are dropped, a comment that follows a block is set one space *)
(* after it, a comment's own bytes and the terminators (LF or CR LF) are   *)
(* kept, and blanks that precede the end of the file are kept as spaces.   *)

RECURSIVE Spaces(_)
Spaces(n) == IF n = 0 THEN << >> ELSE <<SP>> \o Spaces(n - 1)

RECURSIVE FormatFrom(_, _, _, _)
FormatFrom(s, i, mode, pending) ==
    IF i > Len(s) THEN Spaces(pending)
    ELSE LET b == s[i] IN
         IF mode = "comment"
         THEN <<b>> \o FormatFrom(s, i + 1, IF b = LF THEN "start" ELSE "comment", 0)
         ELSE IF b \in {SP, TAB} THEN FormatFrom(s, i + 1, mode, pending + 1)
         ELSE IF b = LF THEN <<LF>> \o FormatFrom(s, i + 1, "start", 0)
         ELSE IF b = CR THEN <<CR>> \o FormatFrom(s, i + 1, mode, 0)
         ELSE IF b = HASH
              THEN (IF mode = "afterBlock" THEN <<SP, HASH>> ELSE <<HASH>>)
                   \o FormatFrom(s, i + 1, "comment", 0)
         ELSE <<b>> \o FormatFrom(s, i + 1, "afterBlock", 0)

Format(s) == FormatFrom(s, 1, "start", 0)

-----------------------------------------------------------------------------
(* normalizeConsecutiveNewlines, main.go:139-161 *)

LF2 == <<LF, LF>>
LF3 == <<LF, LF, LF>>
CRLF == <<CR, LF>>
CRLF2 == <<CR, LF, CR, LF>>
CRLF3 == <<CR, LF, CR, LF, CR, LF>>

\* a replacer built for "\r\n\r\n\r\n" alone
RECURSIVE ReplacerReplace_CRLFOnly(_)
ReplacerReplace_CRLFOnly(s) ==
    IF s = << >> THEN << >>
    ELSE IF HasPrefix(s, CRLF3) THEN CRLF2 \o ReplacerReplace_CRLFOnly(Rest(s, 7))
    ELSE <<Head(s)>> \o ReplacerReplace_CRLFOnly(Tail(s))

\* a replacer built for "\n\n\n" alone
RECURSIVE ReplacerReplace_LFOnly(_)
ReplacerReplace_LFOnly(s) ==
    IF s = << >> THEN << >>
    ELSE IF HasPrefix(s, LF3) THEN LF2 \o ReplacerReplace_LFOnly(Rest(s, 4))
    ELSE <<Head(s)>> \o ReplacerReplace_LFOnly(Tail(s))

\* main.go:142,145: strings.NewReplacer("\n\n\n", "\n\n", "\r\n\r\n\r\n", "\r\n\r\n")
\* .Replace(s): one left-to-right pass, matches do not overlap
RECURSIVE ReplacerReplace(_)
ReplacerReplace(s) ==
    IF s = << >> THEN << >>
    ELSE IF HasPrefix(s, LF3) THEN LF2 \o ReplacerReplace(Rest(s, 4))
    ELSE IF HasPrefix(s, CRLF3) THEN CRLF2 \o ReplacerReplace(Rest(s, 7))
    ELSE <<Head(s)>> \o ReplacerReplace(Tail(s))

\* main.go:144-150: for { newContent := re.Replace(contentStr); if equal break; ... }
RECURSIVE CollapseLoop(_)
CollapseLoop(s) ==
    LET newContent == ReplacerReplace(s)
    IN  IF newContent = s THEN s ELSE CollapseLoop(newContent)

\* main.go:152: strings.ReplaceAll(contentStr, "\r\n", "\n")
RECURSIVE CRLFToLF(_)
CRLFToLF(s) ==
    IF s = << >> THEN << >>
    ELSE IF HasPrefix(s, CRLF) THEN <<LF>> \o CRLFToLF(Rest(s, 3))
    ELSE <<Head(s)>> \o CRLFToLF(Tail(s))

\* trimming one trailing LF only (strings.TrimSuffix)
TrimRightLF_Once(s) ==
    IF s # << >> /\ s[Len(s)] = LF THEN SubSeq(s, 1, Len(s) - 1) ELSE s

\* main.go:154: strings.TrimRight(contentStr, "\n")
RECURSIVE TrimRightLF(_)
TrimRightLF(s) ==
    IF s # << >> /\ s[Len(s)] = LF THEN TrimRightLF(SubSeq(s, 1, Len(s) - 1)) ELSE s

\* main.go:157: strings.ReplaceAll(contentStr, "\n", "\r\n")
RECURSIVE LFToCRLF(_)
LFToCRLF(s) ==
    IF s = << >> THEN << >>
    ELSE IF Head(s) = LF THEN CRLF \o LFToCRLF(Tail(s))
    ELSE <<Head(s)>> \o LFToCRLF(Tail(s))

\* main.go:152-160: what follows the collapse loop; c is the function's argument
Finish(c, s) ==
    LET trimmed == TrimRightLF(CRLFToLF(s)) \o <<LF>>
    IN  IF Contains(c, CRLF) THEN LFToCRLF(trimmed) ELSE trimmed

normalizeConsecutiveNewlines(c) == Finish(c, CollapseLoop(c))

-----------------------------------------------------------------------------
(* Stats, main.go:21-29, and processFile, main.go:49-137 *)

NewStats(dryRun, normalize) ==
    [FilesProcessed |-> 0, FilesModified |-> 0, RemovedBlocksRemoved |-> 0,
     DryRun |-> dryRun, NormalizeWhitespace |-> normalize]

\* main.go:81: stats.FilesProcessed++
CountProcessed(st) == [st EXCEPT !.FilesProcessed = @ + 1]

\* main.go:120-124: stats.FilesModified++ and, if fileModified,
\* stats.RemovedBlocksRemoved += removedBlocksCount
CountModified(st, removedBlocksCount) ==
    [st EXCEPT !.FilesModified = @ + 1,
               !.RemovedBlocksRemoved =
                   IF removedBlocksCount > 0 THEN @ + removedBlocksCount ELSE @]

\* the dry-run branch raising RemovedBlocksRemoved alone
CountDryRun_NoModified(st, removedBlocksCount) ==
    [st EXCEPT !.RemovedBlocksRemoved = @ + removedBlocksCount]

\* main.go:131-134: the dry-run branch, } else if fileModified { ... }
CountDryRun(st, removedBlocksCount) ==
    IF removedBlocksCount > 0
    THEN [st EXCEPT !.FilesModified = @ + 1,
                    !.RemovedBlocksRemoved = @ + removedBlocksCount]
    ELSE st

\* the write branch taken whatever stats.DryRun says
TakesWriteBranch_Always(st) == TRUE

\* main.go:83: if !stats.DryRun
TakesWriteBranch(st) == ~st.DryRun

\* normalizing whenever the flag is set
ShouldNormalize_FlagOnly(fileModified, normalizeWhitespace) ==
    normalizeWhitespace

\* main.go:115: if fileModified && stats.NormalizeWhitespace
ShouldNormalize(fileModified, normalizeWhitespace) ==
    fileModified /\ normalizeWhitespace

\* the write made whatever the formatter returned
ShouldWrite_Always(fileModified, formatted, c) == TRUE

\* writing only when a block was removed
ShouldWrite_OnlyWhenRemoved(fileModified, formatted, c) ==
    fileModified

\* main.go:119: if fileModified || !bytes.Equal(formattedContent, content)
ShouldWrite(fileModified, formatted, c) ==
    fileModified \/ formatted # c

\* main.go:85-111: the offsets kept in resultContent (all of them when no
\* removed block was located)
KeptOffsets(c, ranges) ==
    IF Len(ranges) > 0 THEN Splice(c, ranges) ELSE AllOffsets(c)

\* main.go:113-117: formattedContent, from resultContent
FormattedOf(result, fileModified, normalizeWhitespace) ==
    LET formatted == Format(result)
    IN  IF ShouldNormalize(fileModified, normalizeWhitespace)
        THEN normalizeConsecutiveNewlines(formatted)
        ELSE formatted

\* main.go:126: what os.WriteFile(filePath, data, 0600) can leave behind when it
\* returns an error: the file as it was (the open failed), or, once the file is
\* truncated, any prefix of data (the write or the close failed)
FailedWriteOutcomes(old, data) ==
    {old} \cup {SubSeq(data, 1, k) : k \in 0..Len(data)}

Snapshot == [disk |-> disk, stats |-> stats]

\* main.go:234-237: err := processFile(file, stats); if err != nil { fmt.Printf(...) }
\* the call returns into the loop of main when it was made from there: the
\* error is printed and nothing else is done with it
ReturnToMain ==
    IF bpc = "idle" THEN UNCHANGED batchVars
    ELSE /\ bpc = "call"
         /\ bpc' = "head"
         /\ files' = [files EXCEPT ![fileIdx] = disk']
         /\ log' = Append(log,
                [file    |-> fileIdx,
                 err     |-> err',
                 written |-> written',
                 incr    |-> [FilesProcessed |->
                                  stats'.FilesProcessed - stats.FilesProcessed,
                              FilesModified |->
                                  stats'.FilesModified - stats.FilesModified,
                              RemovedBlocksRemoved |->
                                  stats'.RemovedBlocksRemoved - stats.RemovedBlocksRemoved]])
         /\ UNCHANGED <<files0, fileIdx>>

\* main.go:50-53: os.ReadFile fails
ReadFails ==
    /\ npc = "idle"
    /\ err' = "read"
    /\ pre' = Snapshot
    /\ content' = << >>
    /\ removedRanges' = << >>
    /\ kept' = << >>
    /\ resultContent' = << >>
    /\ formattedContent' = << >>
    /\ written' = << >>
    /\ UNCHANGED <<disk0, disk, stats, normVars, absorbVars>>
    /\ ReturnToMain

\* stats.FilesProcessed++ placed before the parse
ParseFails_CountsFirst ==
    /\ npc = "idle"
    /\ ~ParseConfig(disk).ok
    /\ stats.FilesProcessed < MaxCalls
    /\ stats' = CountProcessed(stats)
    /\ err' = "parse"
    /\ pre' = Snapshot
    /\ content' = disk
    /\ removedRanges' = << >>
    /\ kept' = << >>
    /\ resultContent' = << >>
    /\ formattedContent' = << >>
    /\ written' = << >>
    /\ UNCHANGED <<disk0, disk, normVars, absorbVars>>
    /\ ReturnToMain

\* main.go:56-59: hclsyntax.ParseConfig reports errors
ParseFails ==
    /\ npc = "idle"
    /\ ~ParseConfig(disk).ok
    /\ err' = "parse"
    /\ pre' = Snapshot
    /\ content' = disk
    /\ removedRanges' = << >>
    /\ kept' = << >>
    /\ resultContent' = << >>
    /\ formattedContent' = << >>
    /\ written' = << >>
    /\ UNCHANGED <<disk0, disk, stats, normVars, absorbVars>>
    /\ ReturnToMain

\* main.go:78-83,131-136: the call with stats.DryRun set
DryRunCall ==
    /\ npc = "idle"
    /\ stats.FilesProcessed < MaxCalls
    /\ ParseConfig(disk).ok
    /\ ~TakesWriteBranch(stats)
    /\ LET ranges == RemovedRangesOf(ParseConfig(disk).blocks)
       IN  /\ removedRanges' = ranges
           /\ stats' = CountDryRun(CountProcessed(stats), Len(ranges))
    /\ err' = "nil"
    /\ pre' = Snapshot
    /\ content' = disk
    /\ kept' = << >>
    /\ resultContent' = << >>
    /\ formattedContent' = << >>
    /\ written' = << >>
    /\ UNCHANGED <<disk0, disk, normVars, absorbVars>>
    /\ ReturnToMain

\* main.go:78-130,136: the call without DryRun; outcome says how line 119 and
\* os.WriteFile went: "same" (nothing to write), "written", "writeError"
RealCall(outcome) ==
    /\ npc = "idle"
    /\ stats.FilesProcessed < MaxCalls
    /\ ParseConfig(disk).ok
    /\ TakesWriteBranch(stats)
    /\ LET ranges       == RemovedRangesOf(ParseConfig(disk).blocks)
           fileModified == Len(ranges) > 0
           keptIdx      == KeptOffsets(disk, ranges)
           result       == BytesAt(disk, keptIdx)
           formatted    == FormattedOf(result, fileModified, stats.NormalizeWhitespace)
           write        == ShouldWrite(fileModified, formatted, disk)
       IN  /\ removedRanges' = ranges
           /\ kept' = keptIdx
           /\ resultContent' = result
           /\ formattedContent' = formatted
           /\ \/ /\ outcome = "same"
                 /\ ~write
                 /\ stats' = CountProcessed(stats)
                 /\ written' = << >>
                 /\ disk' = disk
                 /\ err' = "nil"
              \/ /\ outcome = "written"
                 /\ write
                 /\ stats' = CountModified(CountProcessed(stats), Len(ranges))
                 /\ written' = <<formatted>>
                 /\ disk' = formatted
                 /\ err' = "nil"
              \/ /\ outcome = "writeError"
                 /\ write
                 /\ stats' = CountModified(CountProcessed(stats), Len(ranges))
                 /\ written' = <<formatted>>
                 /\ disk' \in FailedWriteOutcomes(disk, formatted)
                 /\ err' = "write"
    /\ pre' = Snapshot
    /\ content' = disk
    /\ UNCHANGED <<disk0, normVars, absorbVars>>
    /\ ReturnToMain

NoWrite == RealCall("same")

WriteOk == RealCall("written")

WriteFails == RealCall("writeError")

processFile == ReadFails \/ ParseFails \/ DryRunCall \/ NoWrite \/ WriteOk \/ WriteFails

\* The files of the repository's tests, block for block and line for line:
\* main.go:399-411, 440-453, 482-495, 521-537 (TestLeadingCommentsPreserved),
\* part_000:66-89, 128, 139-144 (TestProcessFile), part_000:291-321
\* (TestConsecutiveRemovedBlocks), part_000:499-510 (TestTrailingEmptyLines)
CommentDirectlyBefore == <<RESOURCE, LF, LF, HASH, LF, REMOVED, LF>>
MultipleCommentsBefore == <<RESOURCE, LF, LF, HASH, LF, HASH, LF, REMOVED, LF>>
CommentSeparatedByBlankLine == <<RESOURCE, LF, LF, HASH, LF, LF, REMOVED, LF>>
CommentBetweenRemovedAndResource ==
    <<RESOURCE, LF, LF, HASH, LF, REMOVED, LF, LF, RESOURCE, LF>>
TwoRemovedBlocks ==
    <<LF, RESOURCE, LF, LF, REMOVED, LF, LF, RESOURCE, LF, LF, REMOVED, LF>>
InvalidFile == <<RESOURCE, SP, RESOURCE>>
UnformattedFile == <<LF, SP, SP, RESOURCE, LF>>
ConsecutiveRemovedBlocks ==
    <<LF, RESOURCE, LF, LF, REMOVED, LF, LF, REMOVED, LF, LF, REMOVED, LF, LF,
      RESOURCE, LF>>
TrailingRemovedBlock == <<LF, RESOURCE, LF, LF, REMOVED, LF>>

\* a file for main.go:95-98: a removed block indented with a space and a tab,
\* under a comment line, followed by another block
IndentedUnderComment == <<HASH, LF, SP, TAB, REMOVED, LF, RESOURCE, LF>>

\* x written n times
RECURSIVE Repeat(_, _)
Repeat(x, n) == IF n = 0 THEN << >> ELSE x \o Repeat(x, n - 1)

\* the file of TestConsecutiveRemovedBlocks with n removed blocks: a resource
\* block, a blank line, n removed blocks with a blank line after each, a
\* resource block
StackedFile(n) ==
    <<RESOURCE, LF, LF>> \o Repeat(<<REMOVED, LF, LF>>, n) \o <<RESOURCE, LF>>

StackedFiles == {StackedFile(n) : n \in 2..MaxStack}

TestFiles ==
    {CommentDirectlyBefore, MultipleCommentsBefore, CommentSeparatedByBlankLine,
     CommentBetweenRemovedAndResource, TwoRemovedBlocks, InvalidFile,
     UnformattedFile, ConsecutiveRemovedBlocks, TrailingRemovedBlock,
     IndentedUnderComment}

\* no call of normalizeConsecutiveNewlines is being followed
IdleNorm ==
    /\ nContent = << >>
    /\ contentStr = << >>
    /\ npc = "idle"

\* the forward loop of main.go:100-106 is not being followed
IdleAbsorb ==
    /\ loopResult = << >>
    /\ loopEnd = 0
    /\ apc = "idle"

\* the loop of main.go:230-238 is not being followed
IdleBatch ==
    /\ files0 = << >>
    /\ files = << >>
    /\ fileIdx = 0
    /\ bpc = "idle"
    /\ log = << >>

Init ==
    /\ disk0 \in SeqsUpTo(Byte, MaxLen) \cup TestFiles \cup StackedFiles
    /\ disk = disk0
    /\ \E dryRun \in BOOLEAN, normalize \in BOOLEAN : stats = NewStats(dryRun, normalize)
    /\ err = "nil"
    /\ content = << >>
    /\ removedRanges = << >>
    /\ kept = << >>
    /\ resultContent = << >>
    /\ formattedContent = << >>
    /\ written = << >>
    /\ pre = [disk |-> disk, stats |-> stats]
    /\ IdleNorm
    /\ IdleAbsorb
    /\ IdleBatch

Next == processFile

Spec == Init /\ [][Next]_vars

-----------------------------------------------------------------------------
(* normalizeConsecutiveNewlines on its own, main.go:139-161, one pass of   *)
(* the collapse loop per step.  The function tells apart only CR, LF and   *)
(* the other bytes, for which RESOURCE stands.                             *)

NormByte == {RESOURCE, LF, CR}

IdleFile ==
    /\ disk0 = << >>
    /\ disk = << >>
    /\ stats = NewStats(FALSE, TRUE)
    /\ err = "nil"
    /\ content = << >>
    /\ removedRanges = << >>
    /\ kept = << >>
    /\ resultContent = << >>
    /\ formattedContent = << >>
    /\ written = << >>
    /\ pre = [disk |-> << >>, stats |-> NewStats(FALSE, TRUE)]

\* main.go:139-140: the call; contentStr := string(content)
InitNorm ==
    /\ IdleFile
    /\ IdleAbsorb
    /\ IdleBatch
    /\ nContent \in SeqsUpTo(NormByte, MaxNormLen)
    /\ contentStr = nContent
    /\ npc = "loop"

\* main.go:145-149: a pass that changed the string; contentStr = newContent
CollapsePass ==
    /\ npc = "loop"
    /\ ReplacerReplace(contentStr) # contentStr
    /\ contentStr' = ReplacerReplace(contentStr)
    /\ UNCHANGED <<nContent, npc, fileVars, absorbVars, batchVars>>

\* main.go:146-148: if newContent == contentStr { break }
CollapseBreak ==
    /\ npc = "loop"
    /\ ReplacerReplace(contentStr) = contentStr
    /\ npc' = "finish"
    /\ UNCHANGED <<nContent, contentStr, fileVars, absorbVars, batchVars>>

\* main.go:152-160: the rest of the function, and its return value in contentStr
NormReturn ==
    /\ npc = "finish"
    /\ contentStr' = Finish(nContent, contentStr)
    /\ npc' = "done"
    /\ UNCHANGED <<nContent, fileVars, absorbVars, batchVars>>

NextNorm == CollapsePass \/ CollapseBreak \/ NormReturn

SpecNorm == InitNorm /\ [][NextNorm]_vars

-----------------------------------------------------------------------------
(* The forward loop of processFile on its own: main.go:100-106 *)

\* the bytes that can follow the closing brace: the two the loop tests for,
\* one blank and one other
TailByte == {CR, LF, SP, RESOURCE}

\* main.go:100: end := removedRange.end, for a removed block at offset 0
\* followed by any bytes
InitAbsorb ==
    /\ IdleFile
    /\ IdleNorm
    /\ IdleBatch
    /\ \E tail \in SeqsUpTo(TailByte, MaxTail) : loopResult = <<REMOVED>> \o tail
    /\ loopEnd = 1
    /\ apc = "loop"

\* main.go:101: end < len(result) && (result[end] == '\r' || result[end] == '\n')
AbsorbCondition == loopEnd < Len(loopResult) /\ loopResult[loopEnd + 1] \in {CR, LF}

\* main.go:102-105: end++; if result[end-1] == '\n' { break }
AbsorbStep ==
    /\ apc = "loop"
    /\ AbsorbCondition
    /\ loopEnd' = loopEnd + 1
    /\ apc' = IF loopResult[loopEnd + 1] = LF THEN "done" ELSE "loop"
    /\ UNCHANGED <<loopResult, fileVars, normVars, batchVars>>

\* main.go:101: the loop condition is false
AbsorbExit ==
    /\ apc = "loop"
    /\ ~AbsorbCondition
    /\ apc' = "done"
    /\ UNCHANGED <<loopResult, loopEnd, fileVars, normVars, batchVars>>

NextAbsorb == AbsorbStep \/ AbsorbExit

SpecAbsorb == InitAbsorb /\ [][NextAbsorb]_vars

-----------------------------------------------------------------------------
(* The loop of main over the files found: main.go:230-238 *)

\* the files a batch is made of
BatchFiles == {<<REMOVED, LF>>, InvalidFile, UnformattedFile, TrailingRemovedBlock}

\* main.go:216-230: Stats is made, the files are found, the loop is entered
InitBatch ==
    /\ \E n \in 1..MaxCalls : files0 \in [1..n -> BatchFiles]
    /\ files = files0
    /\ fileIdx = 0
    /\ bpc = "head"
    /\ log = << >>
    /\ disk0 = << >>
    /\ disk = << >>
    /\ \E dryRun \in BOOLEAN, normalize \in BOOLEAN : stats = NewStats(dryRun, normalize)
    /\ err = "nil"
    /\ content = << >>
    /\ removedRanges = << >>
    /\ kept = << >>
    /\ resultContent = << >>
    /\ formattedContent = << >>
    /\ written = << >>
    /\ pre = [disk |-> disk, stats |-> stats]
    /\ IdleNorm
    /\ IdleAbsorb

\* a loop that is left at the first error
NextFile_StopOnError ==
    /\ bpc = "head"
    /\ IF fileIdx < Len(files) /\ err = "nil"
       THEN /\ fileIdx' = fileIdx + 1
            /\ disk0' = files[fileIdx + 1]
            /\ disk' = files[fileIdx + 1]
            /\ bpc' = "call"
       ELSE /\ bpc' = "done"
            /\ UNCHANGED <<fileIdx, disk0, disk>>
    /\ UNCHANGED <<files0, files, log, stats, err, content, removedRanges, kept,
                   resultContent, formattedContent, written, pre, normVars, absorbVars>>

\* main.go:230: for _, file := range files; the next file, whatever the call
\* on the file before returned, or the end of the loop
NextFile ==
    /\ bpc = "head"
    /\ IF fileIdx < Len(files)
       THEN /\ fileIdx' = fileIdx + 1
            /\ disk0' = files[fileIdx + 1]
            /\ disk' = files[fileIdx + 1]
            /\ bpc' = "call"
       ELSE /\ bpc' = "done"
            /\ UNCHANGED <<fileIdx, disk0, disk>>
    /\ UNCHANGED <<files0, files, log, stats, err, content, removedRanges, kept,
                   resultContent, formattedContent, written, pre, normVars, absorbVars>>

NextBatch == NextFile \/ processFile

SpecBatch == InitBatch /\ [][NextBatch]_vars

\* the same call on the arguments of at most MaxLoopLen bytes
InitLoop ==
    /\ InitNorm
    /\ Len(nContent) <= MaxLoopLen

\* the function runs to its return: nothing suspends it (no goroutine, no I/O)
SpecNormFair == InitLoop /\ [][NextNorm]_vars /\ WF_vars(NextNorm)

-----------------------------------------------------------------------------
(* Vocabulary of the properties *)

Range(f) == {f[i] : i \in DOMAIN f}

\* the last processFile call got past the parse and counted the file
Counted == stats.FilesProcessed = pre.stats.FilesProcessed + 1

\* ... and it was made without DryRun
RealCounted == Counted /\ ~stats.DryRun

\* ... and it was made with DryRun
DryCounted == Counted /\ stats.DryRun

\* the number of top-level blocks of type "removed" the parser finds in c
RemovedCount(c) ==
    LET blocks == ParseConfig(c).blocks
    IN  Cardinality({i \in DOMAIN blocks : blocks[i].Type = "removed"})

\* the buffer was handed to os.WriteFile
Wrote == written # << >>

-----------------------------------------------------------------------------
\* C1: a non-dry-run processFile call on a file that parses and holds N
\* top-level removed blocks raises RemovedBlocksRemoved by exactly N (0 when
\* only the formatting changed), raises FilesModified by 1 when N >= 1, and the
\* content it writes parses and holds no removed block; when the write
\* succeeds that content is what the disk holds.
MultiBlockCountAccuracy ==
    RealCounted =>
        LET N == RemovedCount(content)
        IN  /\ stats.RemovedBlocksRemoved = pre.stats.RemovedBlocksRemoved + N
            /\ (N >= 1 => stats.FilesModified = pre.stats.FilesModified + 1)
            /\ (N >= 1 => Wrote)
            /\ (Wrote => /\ ParseConfig(written[1]).ok
                         /\ RemovedCount(written[1]) = 0)
            /\ (Wrote /\ err = "nil" => disk = written[1])

\* the file of TestProcessFile, two removed blocks among two resources, has
\* been processed and written
MultiBlockCountAccuracyWitness ==
    /\ RealCounted
    /\ content = TwoRemovedBlocks
    /\ err = "nil"
    /\ stats.RemovedBlocksRemoved = pre.stats.RemovedBlocksRemoved + 2
    /\ stats.FilesModified = pre.stats.FilesModified + 1
    /\ disk = written[1]
    /\ RemovedCount(disk) = 0

-----------------------------------------------------------------------------
\* the buffer `result` when the loop of main.go:90 reaches removedRanges[n]
BufferBefore(n) ==
    SpliceLoop(content, AllOffsets(content), removedRanges, Len(removedRanges), n)

\* the original positions of the bytes the iteration for removedRanges[n] deletes
DeletedBy(n) ==
    Range(BufferBefore(n)) \ Range(SpliceStep(content, BufferBefore(n), removedRanges[n]))

\* the positions of the spaces and tabs that stand immediately before position p
\* of c, back to the first byte that is neither
BlankRunBefore(c, p) ==
    {q \in 1..(p - 1) : \A j \in q..(p - 1) : c[j] \in {SP, TAB}}

\* C2: comment preservation.  In the iteration that deletes a removed block,
\* the bytes deleted before the block's keyword are exactly the run of spaces
\* and tabs that immediately precedes the keyword; every byte of every comment
\* of the file is kept, and the bytes of a comment stay next to each other, so
\* each comment line is in the spliced buffer byte for byte.
CommentsPreserved ==
    RealCounted /\ Len(removedRanges) > 0 =>
        /\ \A n \in 1..Len(removedRanges) :
               LET p == removedRanges[n].start + 1
               IN  {i \in DeletedBy(n) : i < p} = BlankRunBefore(content, p)
        /\ LET cbytes == ParseConfig(content).cbytes
           IN  \A i \in cbytes :
                   \E q \in 1..Len(kept) :
                       /\ kept[q] = i
                       /\ resultContent[q] = content[i]
                       /\ (i + 1 \in cbytes /\ content[i] # LF
                               => q < Len(kept) /\ kept[q + 1] = i + 1)

\* an indented removed block with a comment on the line directly above it has
\* been deleted: the indent and the block's line are gone, the comment line
\* and the block that followed are the whole result
CommentsPreservedWitness ==
    /\ RealCounted
    /\ content = IndentedUnderComment
    /\ DeletedBy(1) = {3, 4, 5, 6}
    /\ resultContent = <<HASH, LF, RESOURCE, LF>>

-----------------------------------------------------------------------------
\* C3: dry-run purity.  With Stats.DryRun set no call hands a buffer to
\* os.WriteFile, and after any sequence of calls the file holds the bytes it
\* held before the first one.
DryRunPurity ==
    stats.DryRun => disk = disk0 /\ ~Wrote

\* a dry run has counted a file that holds a removed block and left it on disk
DryRunPurityWitness ==
    /\ DryCounted
    /\ stats.FilesProcessed = MaxCalls
    /\ stats.RemovedBlocksRemoved > 0
    /\ RemovedCount(disk) > 0
    /\ disk = disk0

-----------------------------------------------------------------------------
\* what the call without DryRun adds to the counters for the content c
\* (main.go:81, 119-124)
RealIncrements(c, normalizeWhitespace) ==
    LET N         == RemovedCount(c)
        result    == BytesAt(c, KeptOffsets(c, RemovedRangesOf(ParseConfig(c).blocks)))
        formatted == FormattedOf(result, N > 0, normalizeWhitespace)
        modified  == IF N > 0 \/ formatted # c THEN 1 ELSE 0
    IN  [FilesProcessed |-> 1, FilesModified |-> modified, RemovedBlocksRemoved |-> N]

\* what the last call added to the counters
LastIncrements ==
    [FilesProcessed       |-> stats.FilesProcessed - pre.stats.FilesProcessed,
     FilesModified        |-> stats.FilesModified - pre.stats.FilesModified,
     RemovedBlocksRemoved |-> stats.RemovedBlocksRemoved - pre.stats.RemovedBlocksRemoved]

\* C4: dry-run counters match a real run.  What a dry-run call adds to
\* FilesProcessed, FilesModified and RemovedBlocksRemoved is what a call
\* without DryRun adds on the same content, also for a file with no removed
\* block whose bytes differ from their formatted form.
DryRunCountersMatchRealRun ==
    DryCounted => LastIncrements = RealIncrements(content, stats.NormalizeWhitespace)

-----------------------------------------------------------------------------
\* C5: the decide rule without DryRun.  The final buffer is the formatter's
\* output whenever normalization does not apply; the buffer is handed to
\* os.WriteFile, and FilesModified raised, exactly when a removed block was
\* located or the formatted buffer differs from the content read; a file with
\* no removed block is rewritten with its formatted bytes when they differ and
\* is left alone and not counted when they do not.
DecideRule ==
    RealCounted =>
        LET N == RemovedCount(content)
        IN  /\ (N = 0 => formattedContent = Format(content))
            /\ (Wrote <=> (N >= 1 \/ formattedContent # content))
            /\ (Wrote <=> stats.FilesModified = pre.stats.FilesModified + 1)
            /\ (~Wrote => /\ stats.FilesModified = pre.stats.FilesModified
                          /\ disk = pre.disk)
            /\ (N = 0 /\ Format(content) # content
                    => /\ written = <<Format(content)>>
                       /\ (err = "nil" => disk = Format(content)))
            /\ (N = 0 /\ Format(content) = content => ~Wrote /\ disk = content)

\* the unformatted file of TestProcessFile, without a removed block, has been
\* rewritten with its formatted bytes and counted
DecideRuleWitness ==
    /\ RealCounted
    /\ content = UnformattedFile
    /\ err = "nil"
    /\ disk = <<LF, RESOURCE, LF>>
    /\ stats.FilesModified = pre.stats.FilesModified + 1
    /\ stats.RemovedBlocksRemoved = pre.stats.RemovedBlocksRemoved

-----------------------------------------------------------------------------
(* Lines *)

HasSuffix(s, x) == Len(s) >= Len(x) /\ SubSeq(s, Len(s) - Len(x) + 1, Len(s)) = x

\* s cut at every LF (strings.Split(s, "\n"))
RECURSIVE SplitLF(_)
SplitLF(s) ==
    IF \A i \in 1..Len(s) : s[i] # LF THEN <<s>>
    ELSE LET k == CHOOSE i \in 1..Len(s) : s[i] = LF /\ \A j \in 1..(i - 1) : s[j] # LF
         IN  <<SubSeq(s, 1, k - 1)>> \o SplitLF(Rest(s, k + 1))

\* a line without the CR of its CR LF terminator
StripCR(l) == IF HasSuffix(l, <<CR>>) THEN SubSeq(l, 1, Len(l) - 1) ELSE l

\* the lines of s: every terminated line, without its LF or CR LF, and what
\* follows the last terminator when that is not empty
Lines(s) ==
    LET segs  == SplitLF(s)
        last  == segs[Len(segs)]
        ended == [i \in 1..(Len(segs) - 1) |-> StripCR(segs[i])]
    IN  IF last = << >> THEN ended ELSE ended \o <<last>>

\* between two non-empty lines that follow each other there is at most one
\* empty line
AtMostOneEmptyBetween(L) ==
    \A i, j \in 1..Len(L) :
        (/\ i < j
         /\ L[i] # << >>
         /\ L[j] # << >>
         /\ \A k \in (i + 1)..(j - 1) : L[k] = << >>) => j - i <= 2

\* no two lines that follow each other are both empty
NoTwoEmptyInARow(L) ==
    \A i \in 1..(Len(L) - 1) : ~(L[i] = << >> /\ L[i + 1] = << >>)

\* every line terminator of s is a bare LF
AllLF(s) == ~Contains(s, CRLF)

\* every line terminator of s is a CR LF pair
AllCRLF(s) == \A i \in 1..Len(s) : s[i] = LF => i > 1 /\ s[i - 1] = CR

\* s has terminators of both kinds
MixedTerminators(s) == ~AllLF(s) /\ ~AllCRLF(s)

\* every CR of s is the first byte of a CR LF pair
CROnlyInPairs(s) == \A i \in 1..Len(s) : s[i] = CR => i < Len(s) /\ s[i + 1] = LF

-----------------------------------------------------------------------------
\* C10: normalization gating.  The final buffer, which is the buffer written,
\* is normalizeConsecutiveNewlines of the formatter's output when
\* NormalizeWhitespace is set and a removed block was located, and exactly the
\* formatter's output on the spliced buffer in every other case.
NormalizationGating ==
    RealCounted =>
        /\ formattedContent =
               IF stats.NormalizeWhitespace /\ RemovedCount(content) >= 1
               THEN normalizeConsecutiveNewlines(Format(resultContent))
               ELSE Format(resultContent)
        /\ (Wrote => written[1] = formattedContent)

\* with the flag set, a file without a removed block was rewritten for its
\* formatting alone and still holds two empty lines in a row, which the
\* normalizer would have collapsed
NormalizationGatingWitness ==
    /\ RealCounted
    /\ stats.NormalizeWhitespace
    /\ RemovedCount(content) = 0
    /\ Wrote
    /\ err = "nil"
    /\ disk = written[1]
    /\ ~NoTwoEmptyInARow(Lines(disk))
    /\ normalizeConsecutiveNewlines(disk) # disk

-----------------------------------------------------------------------------
\* C6: blank-line cap between content lines.  For an argument whose line
\* terminators are all LF or all CR LF, the value normalizeConsecutiveNewlines
\* returns has at most one empty line between any two non-empty lines.
BlankLineCap ==
    npc = "done" /\ (AllLF(nContent) \/ AllCRLF(nContent))
        => AtMostOneEmptyBetween(Lines(contentStr))

\* a run of four empty lines between two content lines came out as one
BlankLineCapWitness ==
    /\ npc = "done"
    /\ nContent = <<RESOURCE, LF, LF, LF, LF, LF, RESOURCE>>
    /\ contentStr = <<RESOURCE, LF, LF, RESOURCE, LF>>

\* an argument as a text file has it: every CR is part of a CR LF pair and
\* the terminators are all of one kind
PlainText(s) == CROnlyInPairs(s) /\ (AllLF(s) \/ AllCRLF(s))

\* C7: whole-file blank-line invariant.  The value normalizeConsecutiveNewlines
\* returns has no two empty lines in a row anywhere, the start of the file
\* included.  Stated for plain text arguments, where no stray CR and no mix
\* of terminators plays a part.
NoBlankRunAnywhere ==
    npc = "done" /\ PlainText(nContent) => NoTwoEmptyInARow(Lines(contentStr))

\* C8: collapsing is independent of the line-ending style.  For an argument
\* in which LF and CR LF terminators are mixed (and every CR is part of a
\* CR LF pair), the value returned still has at most one empty line between
\* any two non-empty lines.
BlankLineCapMixedEndings ==
    npc = "done" /\ CROnlyInPairs(nContent) /\ MixedTerminators(nContent)
        => AtMostOneEmptyBetween(Lines(contentStr))

\* the last terminator of s: CR LF, LF, or none
FinalTerminator(s) ==
    IF HasSuffix(s, CRLF) THEN CRLF ELSE IF HasSuffix(s, <<LF>>) THEN <<LF>> ELSE << >>

\* C9: trailing terminator.  For an argument whose CR bytes occur only in
\* CR LF pairs, the value returned ends with a line terminator, of the
\* document's kind, and what precedes that terminator does not end with one.
ExactlyOneTrailingTerminator ==
    npc = "done" /\ CROnlyInPairs(nContent) =>
        LET term == FinalTerminator(contentStr)
            body == SubSeq(contentStr, 1, Len(contentStr) - Len(term))
        IN  /\ term = (IF Contains(nContent, CRLF) THEN CRLF ELSE <<LF>>)
            /\ FinalTerminator(body) = << >>

\* three trailing CR LF terminators came out as one
ExactlyOneTrailingTerminatorWitness ==
    /\ npc = "done"
    /\ nContent = <<RESOURCE, CR, LF, CR, LF, CR, LF>>
    /\ contentStr = <<RESOURCE, CR, LF>>

-----------------------------------------------------------------------------
\* C11: read and parse failures are atomic.  When processFile returns a read
\* or a parse error it has handed nothing to os.WriteFile, the file holds the
\* bytes it held, and every counter of Stats, FilesProcessed included, holds
\* its value of before the call; a parse error is returned exactly for content
\* that does not parse, which is never counted.
FailuresAreAtomic ==
    /\ err \in {"read", "parse"} => disk = pre.disk /\ stats = pre.stats /\ ~Wrote
    /\ err = "parse" => ~ParseConfig(content).ok
    /\ Counted => ParseConfig(content).ok

\* the invalid file of TestProcessFile was refused with a parse error: it holds
\* its bytes and no counter has moved
FailuresAreAtomicWitness ==
    /\ err = "parse"
    /\ content = InvalidFile
    /\ disk = InvalidFile
    /\ stats.FilesProcessed = 0

-----------------------------------------------------------------------------
\* C12: the write is all-or-nothing.  Whenever a call handed a buffer to
\* os.WriteFile, also when it returned a write error, the file holds either
\* the bytes it held before the call or the whole buffer.
WriteAllOrNothing ==
    Wrote => disk = pre.disk \/ disk = written[1]

-----------------------------------------------------------------------------
\* removed block n's interval with its blanks before and its terminator after,
\* both found on the bytes of c itself (1-based positions)
ExtendedInterval(c, r) ==
    (ExtendStart(c, r.start) + 1)..ExtendEnd(c, r.end)

\* the ranges are in source order, do not overlap, and a line terminator
\* stands between any two that follow each other
SeparatedRanges(c, ranges) ==
    \A n \in 1..(Len(ranges) - 1) :
        /\ ranges[n].end <= ranges[n + 1].start
        /\ \E p \in (ranges[n].end + 1)..ranges[n + 1].start : c[p] = LF

\* C14: reverse-order splicing is a batch interval deletion.  The loop leaves
\* exactly the bytes of the content read that lie outside the union of the
\* extended intervals, each found on the content read, unchanged and in order;
\* and when the loop reaches a range, no byte before that range's end offset
\* has moved.
SpliceIsBatchDeletion ==
    RealCounted /\ Len(removedRanges) > 0 /\ SeparatedRanges(content, removedRanges) =>
        LET gone == UNION {ExtendedInterval(content, removedRanges[n]) :
                              n \in 1..Len(removedRanges)}
        IN  /\ Range(kept) = (1..Len(content)) \ gone
            /\ \A q \in 1..(Len(kept) - 1) : kept[q] < kept[q + 1]
            /\ resultContent = BytesAt(content, kept)
            /\ \A n \in 1..Len(removedRanges) :
                   \A p \in 1..removedRanges[n].end : BufferBefore(n)[p] = p

\* the two removed blocks of TestProcessFile's file were cut out with the
\* terminator after each
SpliceIsBatchDeletionWitness ==
    /\ RealCounted
    /\ content = TwoRemovedBlocks
    /\ kept = <<1, 2, 3, 4, 7, 8, 9, 10>>
    /\ resultContent = <<LF, RESOURCE, LF, LF, LF, RESOURCE, LF, LF>>

-----------------------------------------------------------------------------
\* C19: the Stats invariant.  Over any sequence of calls on the one Stats
\* value no counter decreases, a call raises FilesProcessed and FilesModified
\* by at most 1, FilesModified <= FilesProcessed, and RemovedBlocksRemoved > 0
\* implies FilesModified > 0.
StatsInvariant ==
    /\ stats.FilesProcessed - pre.stats.FilesProcessed \in {0, 1}
    /\ stats.FilesModified - pre.stats.FilesModified \in {0, 1}
    /\ stats.RemovedBlocksRemoved >= pre.stats.RemovedBlocksRemoved
    /\ stats.FilesModified <= stats.FilesProcessed
    /\ stats.RemovedBlocksRemoved > 0 => stats.FilesModified > 0

\* two calls were counted and both counted the file as modified, the first
\* one for a removed block
StatsInvariantWitness ==
    /\ stats.FilesProcessed = 2
    /\ stats.FilesModified = 2
    /\ stats.RemovedBlocksRemoved > 0
    /\ pre.stats.FilesModified = 1

-----------------------------------------------------------------------------
\* C20: a file whose write failed is not counted as modified.  When the call
\* returns a write error, FilesModified and RemovedBlocksRemoved hold their
\* values of before the call.
FailedWriteNotCounted ==
    err = "write" =>
        /\ stats.FilesModified = pre.stats.FilesModified
        /\ stats.RemovedBlocksRemoved = pre.stats.RemovedBlocksRemoved

-----------------------------------------------------------------------------
\* C18: the collapse loop terminates and reaches its fixed point.  Every pass
\* that changes the string makes it strictly shorter, the loop is left for
\* every argument, and when it is left the string holds neither three LF in a
\* row nor three CR LF pairs in a row.
CollapseLoopTerminates ==
    /\ [][CollapsePass => Len(contentStr') < Len(contentStr)]_vars
    /\ <>(npc # "loop")
    /\ [](npc = "finish" => ~Contains(contentStr, LF3) /\ ~Contains(contentStr, CRLF3))

\* six LF went down to two in three passes (6 -> 4 -> 3 -> 2) and the loop
\* was left
CollapseLoopTerminatesWitness ==
    /\ npc = "finish"
    /\ nContent = <<LF, LF, LF, LF, LF, LF>>
    /\ contentStr = LF2

-----------------------------------------------------------------------------
\* the length of the longest run of empty lines of L
LongestEmptyRun(L) ==
    LET runs == {k \in 0..Len(L) :
                    \E i \in 1..(Len(L) - k + 1) : \A j \in i..(i + k - 1) : L[j] = << >>}
    IN  CHOOSE k \in runs : \A m \in runs : m <= k

\* C16: stacked blank lines survive without normalization.  For the LF file
\* with n >= 2 removed blocks in a row, a blank line between any two of them
\* and around them, between two other blocks, the spliced buffer holds n + 1
\* blank lines in a row; with the flag off the formatted result keeps them all,
\* with the flag on one is left, and the longest run of blank lines without
\* normalization is strictly longer than with it.
StackedBlankLinesSurvive ==
    \A n \in 2..MaxStack :
        RealCounted /\ content = StackedFile(n) =>
            /\ resultContent = <<RESOURCE, LF>> \o Repeat(<<LF>>, n + 1) \o <<RESOURCE, LF>>
            /\ ~stats.NormalizeWhitespace =>
                   LongestEmptyRun(Lines(formattedContent)) = n + 1
            /\ stats.NormalizeWhitespace =>
                   LongestEmptyRun(Lines(formattedContent)) = 1
            /\ LongestEmptyRun(Lines(FormattedOf(resultContent, TRUE, FALSE)))
                   > LongestEmptyRun(Lines(FormattedOf(resultContent, TRUE, TRUE)))

\* two stacked removed blocks were deleted with the flag off and three blank
\* lines in a row were written to the file
StackedBlankLinesSurviveWitness ==
    /\ RealCounted
    /\ ~stats.NormalizeWhitespace
    /\ content = StackedFile(2)
    /\ err = "nil"
    /\ disk = <<RESOURCE, LF, LF, LF, LF, RESOURCE, LF>>

-----------------------------------------------------------------------------
\* C17: the line-ending convention is restored from the original document.
\* When the normalizer has run on a file whose CRs all stand in CR LF pairs,
\* every terminator of the result is a CR LF pair if the content read from the
\* file held a CR LF, and every terminator is a bare LF otherwise.
LineEndingsRestoredFromOriginal ==
    (/\ RealCounted
     /\ ShouldNormalize(Len(removedRanges) > 0, stats.NormalizeWhitespace)
     /\ CROnlyInPairs(content)) =>
        IF Contains(content, CRLF)
        THEN AllCRLF(formattedContent)
        ELSE AllLF(formattedContent)

-----------------------------------------------------------------------------
\* the bytes the forward loop has taken after the closing brace
AbsorbedBytes == SubSeq(loopResult, 2, loopEnd)

-----------------------------------------------------------------------------
\* what a call on the content c adds to the counters when it returns e
ExpectedIncrements(c, st, e) ==
    IF e \in {"read", "parse"}
    THEN [FilesProcessed |-> 0, FilesModified |-> 0, RemovedBlocksRemoved |-> 0]
    ELSE IF st.DryRun
    THEN [FilesProcessed       |-> 1,
          FilesModified        |-> IF RemovedCount(c) > 0 THEN 1 ELSE 0,
          RemovedBlocksRemoved |-> RemovedCount(c)]
    ELSE RealIncrements(c, st.NormalizeWhitespace)

\* what a call on the content c hands to os.WriteFile when it returns e
ExpectedWritten(c, st, e) ==
    IF e \in {"read", "parse"} \/ st.DryRun THEN << >>
    ELSE LET N         == RemovedCount(c)
             spliced   == BytesAt(c, KeptOffsets(c, RemovedRangesOf(ParseConfig(c).blocks)))
             formatted == FormattedOf(spliced, N > 0, st.NormalizeWhitespace)
         IN  IF N > 0 \/ formatted # c THEN <<formatted>> ELSE << >>

\* C13: a file's failure is not fatal to the batch.  The loop of main calls
\* processFile once for each file, in order, whatever the calls before
\* returned, and is left only after the last file; what a call writes and adds
\* to the counters depends on its own file's content, the flags and its own
\* outcome only, and a file the loop has not reached holds its bytes.
BatchSurvivesFailure ==
    /\ Len(log) = IF bpc = "call" THEN fileIdx - 1 ELSE fileIdx
    /\ \A j \in 1..Len(log) :
           /\ log[j].file = j
           /\ log[j].incr = ExpectedIncrements(files0[j], stats, log[j].err)
           /\ log[j].written = ExpectedWritten(files0[j], stats, log[j].err)
           /\ log[j].err = "nil" =>
                  files[j] = IF log[j].written = << >> THEN files0[j]
                             ELSE log[j].written[1]
    /\ \A j \in (Len(log) + 1)..Len(files0) : files[j] = files0[j]
    /\ bpc = "done" => Len(log) = Len(files0)

\* the first file did not parse and the second, the file with a trailing
\* removed block, was rewritten without the block and counted
BatchSurvivesFailureWitness ==
    /\ bpc = "done"
    /\ files0 = <<InvalidFile, TrailingRemovedBlock>>
    /\ log[1].err = "parse"
    /\ log[2].err = "nil"
    /\ files[2] = <<LF, RESOURCE, LF>>
    /\ stats.FilesProcessed = 1
    /\ stats.RemovedBlocksRemoved = 1

-----------------------------------------------------------------------------
====
